---- MODULE Spec2Model ----
(***************************************************************************)
(* Model of rustpm_orm (src/src/lib.rs): ImageDatabase and BibleVerseData,  *)
(* two thin managers over a sled Db (an ordered map from byte-string keys   *)
(* to byte-string values) with bincode-serialized records.                  *)
(*                                                                         *)
(* Keys and values are sequences of bytes, exactly as the code hands them   *)
(* to the engine: to_be_bytes() of the id for keys, bincode (fixed-width    *)
(* little-endian integers, u64 length prefixes) for values.                 *)
(*                                                                         *)
(* Under Spec and SpecShared the engine and the codec succeed; SpecFaults   *)
(* adds the Err arms of open, generate_id, serialize, insert, get, iter,    *)
(* remove and flush.                                                        *)
(*                                                                         *)
(* SpecTests is the three image tests of mod tests as threads on the one    *)
(* manager behind DB_MANAGER's mutex; SpecCsv is utils::read_bible_csv on   *)
(* files written line by line.                                              *)
(***************************************************************************)
EXTENDS Integers, Sequences, FiniteSets

\* One database path and the manager constructed on it. Managers on different
\* paths share no state, so one path is modelled; sled's lock on an open path
\* allows one handle at a time.
VARIABLES
    manager,  \* the type of the manager last constructed on the path
    conn,     \* TRUE while that manager (its sled Db handle) is alive
    tree,     \* contents of the Db as seen through the handle
    disk,     \* contents that have been flushed to the path
    idgen,    \* next value of the engine's monotonic u64 id generator (8 bytes, big-endian)
    gens,     \* number of generate_id calls so far (bounded by MaxGen)
    live,     \* history: the records inserted with Ok through this type of manager and not deleted or replaced since
    ret,      \* the last call and what it returned
    lock,     \* tests: the thread holding DB_MANAGER's mutex, "free" or "poisoned"
    pc,       \* tests: where each test thread is in its body
    locals,   \* tests: the Vecs test_delete_image holds (the for loop's rest, images, images_after_delete)
    contents  \* utils: the bytes of the file read_bible_csv is given, None while there is no file

vars == <<manager, conn, tree, disk, idgen, gens, live, ret, lock, pc, locals,
          contents>>

\* the variables no method of the two managers touches
outside == <<lock, pc, locals, contents>>

\* ------------------------------------------------------------------ bounds

\* generate_id calls explored (the engine's counter is unbounded)
MaxGen == 3

\* longest id list handed to get_verses_by_list_of_ids
MaxIds == 2

\* most lines of the file handed to read_bible_csv
MaxLines == 4

\* ------------------------------------------------------------- basic types

ImageDatabase == "ImageDatabase"
BibleVerseData == "BibleVerseData"
None == [some |-> FALSE]
Some(v) == [some |-> TRUE, val |-> v]

EmptyTree == [k \in {} |-> <<>>]

\* ------------------------------------------------------- integer encodings

\* u32::to_be_bytes / i32::to_be_bytes (two's complement: \div and % floor)
to_be_bytes_32(n) ==
    << (n \div 16777216) % 256, (n \div 65536) % 256, (n \div 256) % 256, n % 256 >>

\* bincode fixint encoding of a u32 / i32: four bytes, little-endian
ser_32(n) ==
    << n % 256, (n \div 256) % 256, (n \div 65536) % 256, (n \div 16777216) % 256 >>

\* bincode encoding of a length (usize as u64): eight bytes, little-endian
ser_len(n) ==
    << n % 256, (n \div 256) % 256, (n \div 65536) % 256, 0, 0, 0, 0, 0 >>

\* the u64 that `id as u64` gives for an i32 (sign extension), as to_be_bytes() of it
I32AsU64Bytes(n) ==
    LET ext == IF n < 0 THEN 255 ELSE 0
    IN  <<ext, ext, ext, ext>> \o to_be_bytes_32(n)

\* u64 wrapping addition on the 8 big-endian bytes
RECURSIVE AddAt(_, _, _, _)
AddAt(a, b, i, carry) ==
    IF i = 0 THEN a
    ELSE LET sum == a[i] + b[i] + carry
         IN  AddAt([a EXCEPT ![i] = sum % 256], b, i - 1, sum \div 256)

U64Add(a, b) == AddAt(a, b, 8, 0)

U64Zero == <<0, 0, 0, 0, 0, 0, 0, 0>>
U64One == <<0, 0, 0, 0, 0, 0, 0, 1>>

\* 2^32 - 1
U32Max == <<0, 0, 0, 0, 255, 255, 255, 255>>

\* `id as i32` of a u64: the low 32 bits, read as two's complement
as_i32(b) ==
    (IF b[5] >= 128 THEN b[5] - 256 ELSE b[5]) * 16777216
        + b[6] * 65536 + b[7] * 256 + b[8]

\* ------------------------------------------------------------------ bincode

Fail == [ok |-> FALSE]
Skip(b, n) == SubSeq(b, n + 1, Len(b))

\* str::from_utf8 as bincode applies it to the bytes of a String
RECURSIVE Utf8Valid(_)
Utf8Valid(s) ==
    LET n == Len(s)
        Cont(i) == i <= n /\ s[i] >= 128 /\ s[i] <= 191
    IN  IF n = 0 THEN TRUE
        ELSE IF s[1] < 128 THEN Utf8Valid(Skip(s, 1))
        ELSE IF s[1] >= 194 /\ s[1] <= 223
            THEN Cont(2) /\ Utf8Valid(Skip(s, 2))
        ELSE IF s[1] >= 224 /\ s[1] <= 239
            THEN /\ Cont(2) /\ Cont(3)
                 /\ (s[1] = 224 => s[2] >= 160)
                 /\ (s[1] = 237 => s[2] <= 159)
                 /\ Utf8Valid(Skip(s, 3))
        ELSE IF s[1] >= 240 /\ s[1] <= 244
            THEN /\ Cont(2) /\ Cont(3) /\ Cont(4)
                 /\ (s[1] = 240 => s[2] >= 144)
                 /\ (s[1] = 244 => s[2] <= 143)
                 /\ Utf8Valid(Skip(s, 4))
        ELSE FALSE

\* an i32 field: four little-endian bytes, two's complement
read_i32(b) ==
    IF Len(b) < 4 THEN Fail
    ELSE [ok |-> TRUE,
          val |-> b[1] + 256 * b[2] + 65536 * b[3]
                    + 16777216 * (IF b[4] >= 128 THEN b[4] - 256 ELSE b[4]),
          rest |-> Skip(b, 4)]

\* a u32 field: four little-endian bytes. A u32 above 2^31 - 1 is held as the
\* integer with the same 32 bits (the model's integers are 32 bits wide), so
\* distinct u32 values stay distinct and ser_32 gives back the same bytes
read_u32(b) == read_i32(b)

\* a Vec<u8> field: a u64 length, then that many bytes; a length the input
\* does not hold is an error (every input here is shorter than 2^24 bytes)
read_bytes(b) ==
    IF Len(b) < 8 THEN Fail
    ELSE LET n == b[1] + 256 * b[2] + 65536 * b[3]
             r == Skip(b, 8)
         IN  IF (\E i \in 4..8 : b[i] # 0) \/ n > Len(r) THEN Fail
             ELSE [ok |-> TRUE, val |-> SubSeq(r, 1, n), rest |-> Skip(r, n)]

\* a String field: as Vec<u8>, and the bytes must be UTF-8
read_string(b) ==
    LET r == read_bytes(b)
    IN  IF r.ok /\ Utf8Valid(r.val) THEN r ELSE Fail

ser_bytes(s) == ser_len(Len(s)) \o s

\* bincode::serialize(&ImageDataDB): the fields in declaration order
serialize_image(r) ==
    ser_32(r.id) \o ser_bytes(r.title) \o ser_bytes(r.data) \o ser_bytes(r.file_type)

\* bincode::deserialize::<ImageDataDB>(..).ok(): bytes after the last field are ignored
deserialize_image(b) ==
    LET f1 == read_i32(b)
        f2 == read_string(f1.rest)
        f3 == read_bytes(f2.rest)
        f4 == read_string(f3.rest)
    IN  IF f1.ok /\ f2.ok /\ f3.ok /\ f4.ok
        THEN Some([id |-> f1.val, title |-> f2.val, data |-> f3.val,
                   file_type |-> f4.val])
        ELSE None

\* bincode::serialize(&BibleVerse)
serialize_verse(v) ==
    ser_32(v.verse_id) \o ser_bytes(v.book_name) \o ser_32(v.book_number)
        \o ser_32(v.chapter) \o ser_32(v.verse) \o ser_bytes(v.text)

\* bincode::deserialize::<BibleVerse>(..).ok()
deserialize_verse(b) ==
    LET f1 == read_u32(b)
        f2 == read_string(f1.rest)
        f3 == read_u32(f2.rest)
        f4 == read_u32(f3.rest)
        f5 == read_u32(f4.rest)
        f6 == read_string(f5.rest)
    IN  IF f1.ok /\ f2.ok /\ f3.ok /\ f4.ok /\ f5.ok /\ f6.ok
        THEN Some([verse_id |-> f1.val, book_name |-> f2.val,
                   book_number |-> f3.val, chapter |-> f4.val,
                   verse |-> f5.val, text |-> f6.val])
        ELSE None

\* --------------------------------------------------------------------- sled

\* lexicographic order of byte strings, the order of Db::iter()
RECURSIVE KeyLess(_, _)
KeyLess(a, b) ==
    IF Len(b) = 0 THEN FALSE
    ELSE IF Len(a) = 0 THEN TRUE
    ELSE IF a[1] # b[1] THEN a[1] < b[1]
    ELSE KeyLess(Skip(a, 1), Skip(b, 1))

\* the values of a tree in key order
RECURSIVE IterFrom(_, _)
IterFrom(t, keys) ==
    IF keys = {} THEN <<>>
    ELSE LET k == CHOOSE x \in keys : \A y \in keys \ {x} : KeyLess(x, y)
         IN  <<t[k]>> \o IterFrom(t, keys \ {k})

db_iter(t) == IterFrom(t, DOMAIN t)

\* Db::get
db_get(t, k) == IF k \in DOMAIN t THEN Some(t[k]) ELSE None

\* (mutant) the value is stored only when the key is new
db_insert_if_absent(t, k, v) ==
    [x \in DOMAIN t \cup {k} |-> IF x \in DOMAIN t THEN t[x] ELSE v]

\* Db::insert: the value under k is set, whatever was there
db_insert(t, k, v) == [x \in DOMAIN t \cup {k} |-> IF x = k THEN v ELSE t[x]]

\* (mutant) the entry is looked up and not removed
db_remove_keeps(t, k) == t

\* Db::remove: the tree without k
db_remove(t, k) == [x \in DOMAIN t \ {k} |-> t[x]]

\* ------------------------------------------------------------------ inputs

\* the ImageData values handed to insert_image: the tests' image, and one
\* whose data is a longer byte string
ImageInputs ==
    { [name |-> <<84, 101, 115, 116, 32, 73, 109, 97, 103, 101>>,
       data |-> <<0, 1, 2, 3, 4, 5>>,
       file_type |-> <<112, 110, 103>>],
      [name |-> <<66>>,
       data |-> <<7, 0, 0, 0, 0, 0, 0, 0, 0, 0, 0, 0>>,
       file_type |-> <<>>] }

\* the BibleVerse values handed to insert_bible_verse: two verses with the
\* same verse_id, and one with another (its text is not ASCII)
VerseInputs ==
    { [verse_id |-> 1, book_name |-> <<71, 101, 110>>, book_number |-> 1,
       chapter |-> 1, verse |-> 1, text |-> <<73, 110>>],
      [verse_id |-> 1, book_name |-> <<71, 101, 110>>, book_number |-> 1,
       chapter |-> 1, verse |-> 1, text |-> <<>>],
      [verse_id |-> 2, book_name |-> <<69>>, book_number |-> 4,
       chapter |-> 0, verse |-> 258, text |-> <<195, 169>>] }

\* ids handed to delete_image and (as u64) to get_image: every id the
\* generator can give within MaxGen calls (-1 is 2^32 - 1 as i32), and one it
\* cannot
ImageIds == -1..MaxGen

\* ids handed to get_verse_by_id, delte_by_id and get_verses_by_list_of_ids:
\* the ids of the inputs, and one that is never inserted
VerseIds == {v.verse_id : v \in VerseInputs} \cup {3}

IdLists == UNION {[1..n -> VerseIds] : n \in 0..MaxIds}

\* ------------------------------------------------------------ ImageDatabase

\* Db::generate_id: monotonic. The id is the counter, or (skip) the counter
\* after 2^32 - 1 further ids have been handed out and their records deleted
\* again: insert_image followed by delete_image of the new record, 2^32 - 1
\* times, leaves the tree as it was and the counter 2^32 - 1 higher
generate_id(counter, skip) == IF skip THEN U64Add(counter, U32Max) ELSE counter

\* the record insert_image builds from the generated id and the image
new_image(id, image) ==
    [id |-> id, title |-> image.name, data |-> image.data,
     file_type |-> image.file_type]

\* (mutant) the key in the value's byte order, little-endian
image_key_le(id) == ser_32(id)

\* key of insert_image and delete_image: i32::to_be_bytes
image_key(id) == to_be_bytes_32(id)

\* key of get_image: u64::to_be_bytes
get_image_key(id64) == id64

\* get_image on the tree t; id64 is the u64 argument as its 8 bytes
get_image(t, id64) ==
    LET got == db_get(t, get_image_key(id64))
    IN  IF got.some THEN deserialize_image(got.val) ELSE None

\* (mutant) find_map: only the first entry that deserializes
RECURSIVE collect_images_first(_)
collect_images_first(vals) ==
    IF vals = <<>> THEN <<>>
    ELSE LET d == deserialize_image(Head(vals))
         IN  IF d.some THEN <<d.val>> ELSE collect_images_first(Tail(vals))

\* (mutant) the collection ends at the first entry that fails to deserialize
RECURSIVE collect_images_until_err(_)
collect_images_until_err(vals) ==
    IF vals = <<>> THEN <<>>
    ELSE LET d == deserialize_image(Head(vals))
         IN  IF d.some THEN <<d.val>> \o collect_images_until_err(Tail(vals))
             ELSE <<>>

RECURSIVE collect_images(_)
collect_images(vals) ==
    IF vals = <<>> THEN <<>>
    ELSE LET d == deserialize_image(Head(vals))
         IN  (IF d.some THEN <<d.val>> ELSE <<>>) \o collect_images(Tail(vals))

\* get_images on the tree t
get_images(t) == collect_images(db_iter(t))

\* (mutant) Ok whatever Db::remove found
remove_result_ok(old) == "Ok"

\* the Result of delete_image / delte_by_id from what Db::remove returned
remove_result(old) == IF old.some THEN "Ok" ELSE "NotFound"

\* ImageDatabase::new on the path: sled's open recovers what was flushed
ImageDatabase_new ==
    /\ ~conn
    /\ conn' = TRUE
    /\ manager' = ImageDatabase
    /\ tree' = disk
    /\ ret' = [op |-> "ImageDatabase::new"]
    /\ live' = IF manager = ImageDatabase THEN live ELSE {}
    /\ UNCHANGED <<disk, idgen, gens>>

insert_image(image, skip) ==
    /\ conn /\ manager = ImageDatabase
    /\ gens < MaxGen
    /\ LET g == generate_id(idgen, skip)
           id == as_i32(g)
           serialized_image == serialize_image(new_image(id, image))
       IN  /\ idgen' = U64Add(g, U64One)
           /\ tree' = db_insert(tree, image_key(id), serialized_image)
           /\ ret' = [op |-> "insert_image", arg |-> image, id |-> id,
                      res |-> "Ok"]
           /\ live' = live \cup {new_image(id, image)}
    /\ gens' = gens + 1
    /\ UNCHANGED <<manager, conn, disk>>

call_get_image(id) ==
    /\ conn /\ manager = ImageDatabase
    /\ ret' = [op |-> "get_image", id |-> id,
               res |-> get_image(tree, I32AsU64Bytes(id))]
    /\ UNCHANGED <<manager, conn, tree, disk, idgen, gens, live>>

call_get_images ==
    /\ conn /\ manager = ImageDatabase
    /\ ret' = [op |-> "get_images", res |-> get_images(tree)]
    /\ UNCHANGED <<manager, conn, tree, disk, idgen, gens, live>>

delete_image(id) ==
    /\ conn /\ manager = ImageDatabase
    /\ LET k == image_key(id)
           old == db_get(tree, k)
       IN  /\ tree' = db_remove(tree, k)
           /\ ret' = [op |-> "delete_image", id |-> id,
                      res |-> remove_result(old)]
           /\ live' = IF old.some THEN {r \in live : r.id # id} ELSE live
    /\ UNCHANGED <<manager, conn, disk, idgen, gens>>

\* Db::flush: what the handle sees becomes what the path holds
flush(t) == t

ImageDatabase_close ==
    /\ conn /\ manager = ImageDatabase
    /\ disk' = flush(tree)
    /\ ret' = [op |-> "ImageDatabase::close"]
    /\ UNCHANGED <<manager, conn, tree, idgen, gens, live>>

\* Drop for ImageDatabase: close(), then the handle is gone
ImageDatabase_drop ==
    /\ conn /\ manager = ImageDatabase
    /\ disk' = flush(tree)
    /\ conn' = FALSE
    /\ ret' = [op |-> "ImageDatabase::drop"]
    /\ UNCHANGED <<manager, tree, idgen, gens, live>>

\* ----------------------------------------------------------- BibleVerseData

\* key of every BibleVerseData operation: u32::to_be_bytes
verse_key(id) == to_be_bytes_32(id)

\* (mutant) the lookup with the u64 key that get_image uses
get_verse_by_id_u64_key(t, id) ==
    LET got == db_get(t, <<0, 0, 0, 0>> \o to_be_bytes_32(id))
    IN  IF got.some THEN deserialize_verse(got.val) ELSE None

\* (mutant) the lookup as a range scan from the key: the first entry at or
\* after it
get_verse_by_id_range(t, id) ==
    LET from == {x \in DOMAIN t : ~KeyLess(x, verse_key(id))}
    IN  IF from = {} THEN None
        ELSE deserialize_verse(Head(IterFrom(t, from)))

\* get_verse_by_id on the tree t
get_verse_by_id(t, id) ==
    LET got == db_get(t, verse_key(id))
    IN  IF got.some THEN deserialize_verse(got.val) ELSE None

RECURSIVE collect_verses(_)
collect_verses(vals) ==
    IF vals = <<>> THEN <<>>
    ELSE LET d == deserialize_verse(Head(vals))
         IN  (IF d.some THEN <<d.val>> ELSE <<>>) \o collect_verses(Tail(vals))

\* get_all_bible_verses on the tree t
get_all_bible_verses(t) == collect_verses(db_iter(t))

\* (mutant) the stored verses whose id is in the list, in key order
get_verses_by_list_of_ids_scan(t, ids) ==
    SelectSeq(get_all_bible_verses(t),
              LAMBDA v : \E j \in 1..Len(ids) : ids[j] = v.verse_id)

\* get_verses_by_list_of_ids on the tree t: map, filter is_some, unwrap
RECURSIVE get_verses_by_list_of_ids(_, _)
get_verses_by_list_of_ids(t, ids) ==
    IF ids = <<>> THEN <<>>
    ELSE LET verse == get_verse_by_id(t, Head(ids))
         IN  (IF verse.some THEN <<verse.val>> ELSE <<>>)
                 \o get_verses_by_list_of_ids(t, Tail(ids))

BibleVerseData_new ==
    /\ ~conn
    /\ conn' = TRUE
    /\ manager' = BibleVerseData
    /\ tree' = disk
    /\ ret' = [op |-> "BibleVerseData::new"]
    /\ live' = IF manager = BibleVerseData THEN live ELSE {}
    /\ UNCHANGED <<disk, idgen, gens>>

insert_bible_verse(verse) ==
    /\ conn /\ manager = BibleVerseData
    /\ LET serialized_verse == serialize_verse(verse)
       IN  tree' = db_insert(tree, verse_key(verse.verse_id), serialized_verse)
    /\ ret' = [op |-> "insert_bible_verse", arg |-> verse, res |-> "Ok"]
    /\ live' = {r \in live : r.verse_id # verse.verse_id} \cup {verse}
    /\ UNCHANGED <<manager, conn, disk, idgen, gens>>

\* (mutant) the lookup takes the entry out of the tree (Db::remove for Db::get)
call_get_verse_by_id_take(id) ==
    /\ conn /\ manager = BibleVerseData
    /\ ret' = [op |-> "get_verse_by_id", id |-> id,
               res |-> get_verse_by_id(tree, id)]
    /\ tree' = db_remove(tree, verse_key(id))
    /\ UNCHANGED <<manager, conn, disk, idgen, gens, live>>

call_get_verse_by_id(id) ==
    /\ conn /\ manager = BibleVerseData
    /\ ret' = [op |-> "get_verse_by_id", id |-> id,
               res |-> get_verse_by_id(tree, id)]
    /\ UNCHANGED <<manager, conn, tree, disk, idgen, gens, live>>

call_get_all_bible_verses ==
    /\ conn /\ manager = BibleVerseData
    /\ ret' = [op |-> "get_all_bible_verses",
               res |-> get_all_bible_verses(tree)]
    /\ UNCHANGED <<manager, conn, tree, disk, idgen, gens, live>>

call_get_verses_by_list_of_ids(ids) ==
    /\ conn /\ manager = BibleVerseData
    /\ ret' = [op |-> "get_verses_by_list_of_ids", ids |-> ids,
               res |-> get_verses_by_list_of_ids(tree, ids)]
    /\ UNCHANGED <<manager, conn, tree, disk, idgen, gens, live>>

delte_by_id(id) ==
    /\ conn /\ manager = BibleVerseData
    /\ LET k == verse_key(id)
           old == db_get(tree, k)
       IN  /\ tree' = db_remove(tree, k)
           /\ ret' = [op |-> "delte_by_id", id |-> id,
                      res |-> remove_result(old)]
           /\ live' = IF old.some THEN {r \in live : r.verse_id # id} ELSE live
    /\ UNCHANGED <<manager, conn, disk, idgen, gens>>

BibleVerseData_close ==
    /\ conn /\ manager = BibleVerseData
    /\ disk' = flush(tree)
    /\ ret' = [op |-> "BibleVerseData::close"]
    /\ UNCHANGED <<manager, conn, tree, idgen, gens, live>>

\* Drop for BibleVerseData: close(), then the handle is gone
BibleVerseData_drop ==
    /\ conn /\ manager = BibleVerseData
    /\ disk' = flush(tree)
    /\ conn' = FALSE
    /\ ret' = [op |-> "BibleVerseData::drop"]
    /\ UNCHANGED <<manager, tree, idgen, gens, live>>

\* ------------------------------------------------------- engine failures
\* The Err arms: the same calls when the engine (or the codec) returns Err.
\* A failed engine call changes nothing in the Db.

\* Result::unwrap() on an Err: the calling thread panics inside the call
unwrap_err(at) == [op |-> "panic", at |-> at]

\* std::io::Error::new(kind, ..) returned as Err
InsertImageErrs == {"InvalidInput", "InvalidData", "Other"}
InsertVerseErrs == {"Other", "InvalidData"}

\* open(path) returns Err (a path that cannot be opened): new() unwraps it,
\* so no manager is constructed
ImageDatabase_new_err ==
    /\ ~conn /\ manager = ImageDatabase
    /\ ret' = unwrap_err("ImageDatabase::new")
    /\ UNCHANGED <<manager, conn, tree, disk, idgen, gens, live>>

\* generate_id Err -> InvalidInput (no id was drawn); serialize Err ->
\* InvalidData and insert Err -> Other (the id drawn is spent)
insert_image_err(image, kind) ==
    /\ conn /\ manager = ImageDatabase
    /\ gens < MaxGen
    /\ IF kind = "InvalidInput"
          THEN UNCHANGED <<idgen, gens>>
          ELSE /\ idgen' = U64Add(generate_id(idgen, FALSE), U64One)
               /\ gens' = gens + 1
    /\ ret' = [op |-> "insert_image", arg |-> image, res |-> kind]
    /\ UNCHANGED <<manager, conn, tree, disk, live>>

\* conn.get Err: get_image unwraps it
call_get_image_err(id) ==
    /\ conn /\ manager = ImageDatabase
    /\ ret' = unwrap_err("get_image")
    /\ UNCHANGED <<manager, conn, tree, disk, idgen, gens, live>>

\* the iterator yields Err for the entry under key k: result.ok() is None
\* and filter_map drops it
call_get_images_err(k) ==
    /\ conn /\ manager = ImageDatabase
    /\ k \in DOMAIN tree
    /\ ret' = [op |-> "get_images", res |-> get_images(db_remove(tree, k))]
    /\ UNCHANGED <<manager, conn, tree, disk, idgen, gens, live>>

\* conn.remove Err -> Other
delete_image_err(id) ==
    /\ conn /\ manager = ImageDatabase
    /\ ret' = [op |-> "delete_image", id |-> id, res |-> "Other"]
    /\ UNCHANGED <<manager, conn, tree, disk, idgen, gens, live>>

\* conn.flush Err: close unwraps it
ImageDatabase_close_err ==
    /\ conn /\ manager = ImageDatabase
    /\ ret' = unwrap_err("ImageDatabase::close")
    /\ UNCHANGED <<manager, conn, tree, disk, idgen, gens, live>>

\* Drop calls close(): the panic happens while the manager is dropped
ImageDatabase_drop_err ==
    /\ conn /\ manager = ImageDatabase
    /\ conn' = FALSE
    /\ ret' = unwrap_err("ImageDatabase::drop")
    /\ UNCHANGED <<manager, tree, disk, idgen, gens, live>>

BibleVerseData_new_err ==
    /\ ~conn /\ manager = BibleVerseData
    /\ ret' = unwrap_err("BibleVerseData::new")
    /\ UNCHANGED <<manager, conn, tree, disk, idgen, gens, live>>

\* serialize Err -> Other; insert Err -> InvalidData
insert_bible_verse_err(verse, kind) ==
    /\ conn /\ manager = BibleVerseData
    /\ ret' = [op |-> "insert_bible_verse", arg |-> verse, res |-> kind]
    /\ UNCHANGED <<manager, conn, tree, disk, idgen, gens, live>>

call_get_verse_by_id_err(id) ==
    /\ conn /\ manager = BibleVerseData
    /\ ret' = unwrap_err("get_verse_by_id")
    /\ UNCHANGED <<manager, conn, tree, disk, idgen, gens, live>>

call_get_all_bible_verses_err(k) ==
    /\ conn /\ manager = BibleVerseData
    /\ k \in DOMAIN tree
    /\ ret' = [op |-> "get_all_bible_verses",
               res |-> get_all_bible_verses(db_remove(tree, k))]
    /\ UNCHANGED <<manager, conn, tree, disk, idgen, gens, live>>

\* get_verse_by_id panics for one of the ids of a non-empty list
call_get_verses_by_list_of_ids_err(ids) ==
    /\ conn /\ manager = BibleVerseData
    /\ ids # <<>>
    /\ ret' = unwrap_err("get_verses_by_list_of_ids")
    /\ UNCHANGED <<manager, conn, tree, disk, idgen, gens, live>>

delte_by_id_err(id) ==
    /\ conn /\ manager = BibleVerseData
    /\ ret' = [op |-> "delte_by_id", id |-> id, res |-> "Other"]
    /\ UNCHANGED <<manager, conn, tree, disk, idgen, gens, live>>

BibleVerseData_close_err ==
    /\ conn /\ manager = BibleVerseData
    /\ ret' = unwrap_err("BibleVerseData::close")
    /\ UNCHANGED <<manager, conn, tree, disk, idgen, gens, live>>

BibleVerseData_drop_err ==
    /\ conn /\ manager = BibleVerseData
    /\ conn' = FALSE
    /\ ret' = unwrap_err("BibleVerseData::drop")
    /\ UNCHANGED <<manager, tree, disk, idgen, gens, live>>

\* ------------------------------------------------------------------- tests
\* The #[test] functions on DB_MANAGER, one thread each (cargo's test
\* harness runs them in parallel). Each locks the mutex first and holds the
\* guard to the end of its body.

Tests == {"test_insert_image", "test_get_images", "test_delete_image"}

\* the ImageData the three tests insert
test_image ==
    [name |-> <<84, 101, 115, 116, 32, 73, 109, 97, 103, 101>>,
     data |-> <<0, 1, 2, 3, 4, 5>>,
     file_type |-> <<112, 110, 103>>]

\* (mutant) a lock that does not exclude
lockable_always(l) == TRUE

\* Mutex::lock returns once no thread holds the mutex
lockable(l) == l \in {"free", "poisoned"}

\* DB_MANAGER.lock().unwrap(): the guard, or a panic when a thread panicked
\* while holding it
lock_unwrap(t, next) ==
    /\ pc[t] = "start"
    /\ lockable(lock)
    /\ IF lock = "poisoned"
          THEN /\ pc' = [pc EXCEPT ![t] = "panicked"]
               /\ UNCHANGED lock
          ELSE /\ pc' = [pc EXCEPT ![t] = next]
               /\ lock' = t
    /\ UNCHANGED <<manager, conn, tree, disk, idgen, gens, live, ret, locals>>

\* the end of a test body or a panic in it: the guard is dropped
goes(t, ok, next) ==
    /\ pc' = [pc EXCEPT ![t] = IF ok THEN next ELSE "panicked"]
    /\ lock' = IF ~ok THEN "poisoned"
               ELSE IF next = "done" THEN "free" ELSE lock

test_insert_image_lock == lock_unwrap("test_insert_image", "insert_image")

\* assert!(db_manager.insert_image(test_image).is_ok())
test_insert_image_insert ==
    /\ pc["test_insert_image"] = "insert_image"
    /\ \E skip \in BOOLEAN : insert_image(test_image, skip)
    /\ goes("test_insert_image", ret'.res = "Ok", "done")
    /\ UNCHANGED locals

test_get_images_lock == lock_unwrap("test_get_images", "insert_image")

test_get_images_insert ==
    /\ pc["test_get_images"] = "insert_image"
    /\ \E skip \in BOOLEAN : insert_image(test_image, skip)
    /\ goes("test_get_images", ret'.res = "Ok", "get_images")
    /\ UNCHANGED locals

\* let images = db_manager.get_images(); assert!(images.len() > 0)
test_get_images_get ==
    /\ pc["test_get_images"] = "get_images"
    /\ call_get_images
    /\ goes("test_get_images", Len(ret'.res) > 0, "done")
    /\ UNCHANGED locals

test_delete_image_lock == lock_unwrap("test_delete_image", "clear")

\* for image in db_manager.get_images(): the Vec is collected once
test_delete_image_clear ==
    /\ pc["test_delete_image"] = "clear"
    /\ call_get_images
    /\ locals' = [locals EXCEPT !.iter = ret'.res]
    /\ goes("test_delete_image", TRUE, "for")

\* db_manager.delete_image(image.id).unwrap()
test_delete_image_for ==
    /\ pc["test_delete_image"] = "for"
    /\ locals.iter # <<>>
    /\ delete_image(Head(locals.iter).id)
    /\ locals' = [locals EXCEPT !.iter = Tail(locals.iter)]
    /\ goes("test_delete_image", ret'.res = "Ok", "for")

\* db_manager.insert_image(test_image).unwrap()
test_delete_image_insert ==
    /\ pc["test_delete_image"] = "for"
    /\ locals.iter = <<>>
    /\ \E skip \in BOOLEAN : insert_image(test_image, skip)
    /\ goes("test_delete_image", ret'.res = "Ok", "get_images")
    /\ UNCHANGED locals

\* let images = db_manager.get_images()
test_delete_image_get ==
    /\ pc["test_delete_image"] = "get_images"
    /\ call_get_images
    /\ locals' = [locals EXCEPT !.images = ret'.res]
    /\ goes("test_delete_image", TRUE, "assert_eq_1")

\* assert_eq!(images.len(), 1)
test_delete_image_assert_eq_1 ==
    /\ pc["test_delete_image"] = "assert_eq_1"
    /\ goes("test_delete_image", Len(locals.images) = 1, "delete_image")
    /\ UNCHANGED <<manager, conn, tree, disk, idgen, gens, live, ret, locals>>

\* let delete_result = db_manager.delete_image(images[0].id);
\* assert!(delete_result.is_ok())
test_delete_image_delete ==
    /\ pc["test_delete_image"] = "delete_image"
    /\ delete_image(locals.images[1].id)
    /\ goes("test_delete_image", ret'.res = "Ok", "get_images_after_delete")
    /\ UNCHANGED locals

\* let images_after_delete = db_manager.get_images()
test_delete_image_get_after_delete ==
    /\ pc["test_delete_image"] = "get_images_after_delete"
    /\ call_get_images
    /\ locals' = [locals EXCEPT !.images_after_delete = ret'.res]
    /\ goes("test_delete_image", TRUE, "assert_eq_0")

\* assert_eq!(images_after_delete.len(), 0)
test_delete_image_assert_eq_0 ==
    /\ pc["test_delete_image"] = "assert_eq_0"
    /\ goes("test_delete_image", Len(locals.images_after_delete) = 0, "done")
    /\ UNCHANGED <<manager, conn, tree, disk, idgen, gens, live, ret, locals>>

\* ------------------------------------------------------------------- utils
\* read_bible_csv. The file is its bytes; 10 is '\n', 13 '\r', 44 ',',
\* 43 '+', 48..57 the digits.

\* the position of the first byte c in b, 0 when there is none
IndexOf(b, c) ==
    IF \E i \in 1..Len(b) : b[i] = c
    THEN CHOOSE i \in 1..Len(b) : b[i] = c /\ \A j \in 1..(i - 1) : b[j] # c
    ELSE 0

\* str::lines: the pieces ended by "\n" or "\r\n", without the ending; what
\* follows the last "\n" is a line when it is not empty
RECURSIVE lines(_)
lines(b) ==
    IF b = <<>> THEN <<>>
    ELSE LET n == IndexOf(b, 10)
             line == SubSeq(b, 1, n - 1)
         IN  IF n = 0 THEN <<b>>
             ELSE IF line # <<>> /\ line[Len(line)] = 13
                 THEN <<SubSeq(line, 1, Len(line) - 1)>> \o lines(Skip(b, n))
             ELSE <<line>> \o lines(Skip(b, n))

\* str::split(","): the pieces between the commas, one more than there are
\* commas
RECURSIVE split(_, _)
split(line, c) ==
    LET n == IndexOf(line, c)
    IN  IF n = 0 THEN <<line>>
        ELSE <<SubSeq(line, 1, n - 1)>> \o split(Skip(line, n), c)

\* the digits of u32::from_str, most significant first; acc is the value of
\* the digits read so far. Err (None) on a byte that is no digit and on a
\* value above u32::MAX = 4294967295; a value from 2^31 on is held as the
\* i32 of the same bits
RECURSIVE parse_digits(_, _)
parse_digits(ds, acc) ==
    LET d == ds[1] - 48
    IN  IF ds[1] < 48 \/ ds[1] > 57 THEN None
        ELSE IF Len(ds) = 1
            THEN IF acc < 214748364 \/ (acc = 214748364 /\ d <= 7)
                     THEN Some(acc * 10 + d)
                 ELSE IF acc < 429496729 \/ (acc = 429496729 /\ d <= 5)
                     THEN Some((acc - 429496729) * 10 + d - 6)
                 ELSE None
        ELSE IF acc > 42949672 THEN None
        ELSE parse_digits(Tail(ds), acc * 10 + d)

\* str::parse::<u32>: an optional '+', then one digit or more
parse(field) ==
    LET ds == IF field # <<>> /\ field[1] = 43 THEN Tail(field) ELSE field
    IN  IF ds = <<>> THEN None ELSE parse_digits(ds, 0)

\* lines.next(): the lines after the first
skip_first_line(ls) == Tail(ls)

\* the for loop over the lines: a line of six fields is pushed as a
\* BibleVerse, and unwrap() panics when one of its numbers does not parse;
\* any other line is passed over
RECURSIVE push_rows(_, _)
push_rows(ls, rows) ==
    IF ls = <<>> THEN [kind |-> "Ok", rows |-> rows]
    ELSE LET fields == split(Head(ls), 44)
         IN  IF Len(fields) = 6
             THEN LET verse_id == parse(fields[1])
                      book_number == parse(fields[3])
                      chapter == parse(fields[4])
                      verse == parse(fields[5])
                  IN  IF verse_id.some /\ book_number.some /\ chapter.some
                            /\ verse.some
                      THEN push_rows(Tail(ls), Append(rows,
                               [verse_id |-> verse_id.val,
                                book_name |-> fields[2],
                                book_number |-> book_number.val,
                                chapter |-> chapter.val,
                                verse |-> verse.val,
                                text |-> fields[6]]))
                      ELSE [kind |-> "panic"]
             ELSE push_rows(Tail(ls), rows)

\* read_bible_csv on the file at the path (None: there is no file).
\* fs::read_to_string fails on a missing file and on bytes that are not
\* UTF-8, and `?` returns the io::Error; lines.next().unwrap() panics on a
\* file without a line
read_bible_csv(file) ==
    IF ~file.some \/ ~Utf8Valid(file.val) THEN [kind |-> "Err"]
    ELSE LET ls == lines(file.val)
         IN  IF ls = <<>> THEN [kind |-> "panic"]
             ELSE push_rows(skip_first_line(ls), <<>>)

\* what is written to the file, a line at a time:
\*   ""                           nothing (an empty file)
\*   "id,b,n,c,v,t\n"             six fields, numbers that do not parse
\*   "1,G,1,1,1,In\n"             a verse
\*   "+2,E,4294967295,0,07,\r\n"  a verse: sign, u32::MAX, leading zero, empty text
\*   "3,G,1,1,1\n"                five fields
\*   "4,G,1,1,1,a,b\n"            seven fields: a text with a comma
\*   "\n"                         an empty line
\*   "5,G,4294967296,1,1,t\n"     six fields, a number above u32::MAX
\*   "6,J,1,1,1,x"                a verse, the line not ended
\*   "\xff\n"                     a byte that is not UTF-8
CsvLines ==
    { <<>>,
      <<105, 100, 44, 98, 44, 110, 44, 99, 44, 118, 44, 116, 10>>,
      <<49, 44, 71, 44, 49, 44, 49, 44, 49, 44, 73, 110, 10>>,
      <<43, 50, 44, 69, 44, 52, 50, 57, 52, 57, 54, 55, 50, 57, 53, 44, 48,
        44, 48, 55, 44, 13, 10>>,
      <<51, 44, 71, 44, 49, 44, 49, 44, 49, 10>>,
      <<52, 44, 71, 44, 49, 44, 49, 44, 49, 44, 97, 44, 98, 10>>,
      <<10>>,
      <<53, 44, 71, 44, 52, 50, 57, 52, 57, 54, 55, 50, 57, 54, 44, 49, 44,
        49, 44, 116, 10>>,
      <<54, 44, 74, 44, 49, 44, 49, 44, 49, 44, 120>>,
      <<255, 10>> }

\* the file is created or a line is added after its last, ended line
write_line(line) ==
    /\ IF contents.some
          THEN /\ contents.val # <<>>
               /\ contents.val[Len(contents.val)] = 10
               /\ Len(lines(contents.val)) < MaxLines
               /\ line # <<>>
               /\ contents' = Some(contents.val \o line)
          ELSE contents' = Some(line)
    /\ ret' = [op |-> "write"]
    /\ UNCHANGED <<manager, conn, tree, disk, idgen, gens, live, lock, pc, locals>>

call_read_bible_csv ==
    /\ ret' = [op |-> "read_bible_csv", res |-> read_bible_csv(contents)]
    /\ UNCHANGED <<manager, conn, tree, disk, idgen, gens, live, lock, pc, locals,
                   contents>>

\* ------------------------------------------------------------ specification

\* a manager of either type, just constructed on a fresh path
Init ==
    /\ manager \in {ImageDatabase, BibleVerseData}
    /\ conn = TRUE
    /\ tree = EmptyTree
    /\ disk = EmptyTree
    /\ idgen = U64Zero
    /\ gens = 0
    /\ live = {}
    /\ ret = [op |-> "init"]
    /\ lock = "free"
    /\ pc = [t \in Tests |-> "start"]
    /\ locals = [iter |-> <<>>, images |-> <<>>, images_after_delete |-> <<>>]
    /\ contents = None

\* the calls that write, flush or release
Writes ==
    \/ \E image \in ImageInputs, skip \in BOOLEAN : insert_image(image, skip)
    \/ \E id \in ImageIds : delete_image(id)
    \/ ImageDatabase_close
    \/ ImageDatabase_drop
    \/ \E verse \in VerseInputs : insert_bible_verse(verse)
    \/ \E id \in VerseIds : delte_by_id(id)
    \/ BibleVerseData_close
    \/ BibleVerseData_drop

\* the calls that read everything
ReadAll ==
    \/ call_get_images
    \/ call_get_all_bible_verses

\* the calls that read by id
ReadById ==
    \/ \E id \in ImageIds : call_get_image(id)
    \/ \E id \in VerseIds : call_get_verse_by_id(id)
    \/ \E ids \in IdLists : call_get_verses_by_list_of_ids(ids)

\* each path is only ever opened by one type of manager, as in the tests
\* ("test_images" by ImageDatabase, "test_verses" by BibleVerseData)
Next ==
    \/ Writes /\ UNCHANGED outside
    \/ ReadAll /\ UNCHANGED outside
    \/ ReadById /\ UNCHANGED outside
    \/ manager = ImageDatabase /\ ImageDatabase_new /\ UNCHANGED outside
    \/ manager = BibleVerseData /\ BibleVerseData_new /\ UNCHANGED outside

Spec == Init /\ [][Next]_vars

\* a path may be opened by a manager of the other type once its manager is
\* dropped: get_images / get_all_bible_verses then meet the other type's
\* entries. The calls are the ones that change or list the entries, with the
\* generated ids in sequence
NextShared ==
    \/ \E image \in ImageInputs : insert_image(image, FALSE) /\ UNCHANGED outside
    \/ \E id \in ImageIds : delete_image(id) /\ UNCHANGED outside
    \/ ImageDatabase_drop /\ UNCHANGED outside
    \/ \E verse \in VerseInputs : insert_bible_verse(verse) /\ UNCHANGED outside
    \/ \E id \in VerseIds : delte_by_id(id) /\ UNCHANGED outside
    \/ BibleVerseData_drop /\ UNCHANGED outside
    \/ ReadAll /\ UNCHANGED outside
    \/ ImageDatabase_new /\ UNCHANGED outside
    \/ BibleVerseData_new /\ UNCHANGED outside

SpecShared == Init /\ [][NextShared]_vars

\* the calls when the engine may fail. A manager outlives a caller that
\* panicked when it is held in a static, as the tests hold theirs
Faults ==
    \/ manager = ImageDatabase /\ ImageDatabase_new_err
    \/ \E image \in ImageInputs, kind \in InsertImageErrs :
          insert_image_err(image, kind)
    \/ \E id \in ImageIds : call_get_image_err(id)
    \/ \E k \in DOMAIN tree : call_get_images_err(k)
    \/ \E id \in ImageIds : delete_image_err(id)
    \/ ImageDatabase_close_err
    \/ ImageDatabase_drop_err
    \/ manager = BibleVerseData /\ BibleVerseData_new_err
    \/ \E verse \in VerseInputs, kind \in InsertVerseErrs :
          insert_bible_verse_err(verse, kind)
    \/ \E id \in VerseIds : call_get_verse_by_id_err(id)
    \/ \E k \in DOMAIN tree : call_get_all_bible_verses_err(k)
    \/ \E ids \in IdLists : call_get_verses_by_list_of_ids_err(ids)
    \/ \E id \in VerseIds : delte_by_id_err(id)
    \/ BibleVerseData_close_err
    \/ BibleVerseData_drop_err

NextFaults ==
    \/ Next
    \/ Faults /\ UNCHANGED outside

SpecFaults == Init /\ [][NextFaults]_vars

\* the three image tests of one run of the test binary, in parallel on the
\* manager of DB_MANAGER
InitTests ==
    /\ Init
    /\ manager = ImageDatabase

NextTests ==
    \/ test_insert_image_lock /\ UNCHANGED contents
    \/ test_insert_image_insert /\ UNCHANGED contents
    \/ test_get_images_lock /\ UNCHANGED contents
    \/ test_get_images_insert /\ UNCHANGED contents
    \/ test_get_images_get /\ UNCHANGED contents
    \/ test_delete_image_lock /\ UNCHANGED contents
    \/ test_delete_image_clear /\ UNCHANGED contents
    \/ test_delete_image_for /\ UNCHANGED contents
    \/ test_delete_image_insert /\ UNCHANGED contents
    \/ test_delete_image_get /\ UNCHANGED contents
    \/ test_delete_image_assert_eq_1 /\ UNCHANGED contents
    \/ test_delete_image_delete /\ UNCHANGED contents
    \/ test_delete_image_get_after_delete /\ UNCHANGED contents
    \/ test_delete_image_assert_eq_0 /\ UNCHANGED contents

SpecTests == InitTests /\ [][NextTests]_vars

\* read_bible_csv on the files that can be written line by line
NextCsv ==
    \/ \E line \in CsvLines : write_line(line)
    \/ call_read_bible_csv

\* the tests read ./test.csv next to a BibleVerseData manager
InitCsv ==
    /\ Init
    /\ manager = BibleVerseData

SpecCsv == InitCsv /\ [][NextCsv]_vars

\* ------------------------------------------------------------------- claims

\* what the last step was, read off the call it recorded
InsertedVerse(r) == r.op = "insert_bible_verse" /\ r.res = "Ok"
InsertedImage(r) == r.op = "insert_image" /\ r.res = "Ok"
DeletedVerse(r) == r.op = "delte_by_id" /\ r.res = "Ok"
DeletedImage(r) == r.op = "delete_image" /\ r.res = "Ok"

\* the step is an insert or a delete of verse id
TouchesVerse(r, id) ==
    \/ r.op = "insert_bible_verse" /\ r.arg.verse_id = id
    \/ r.op = "delte_by_id" /\ r.id = id

\* C1: after insert_bible_verse(v) returns Ok, get_verse_by_id(v.verse_id)
\* is Some(v), equal in every field, whatever was inserted and deleted
\* before; and what get_verse_by_id returns for an id stays the same through
\* every step that is not an insert or a delete of that id.
C1_VerseRoundTrip ==
    [][ manager = BibleVerseData =>
          /\ InsertedVerse(ret') =>
                get_verse_by_id(tree', ret'.arg.verse_id) = Some(ret'.arg)
          /\ \A id \in VerseIds :
                ~TouchesVerse(ret', id) =>
                    get_verse_by_id(tree', id) = get_verse_by_id(tree, id)
      ]_vars

\* C1 witness: an insert of a verse over a store that already holds a
\* different verse under the same id and a verse under another id
C1_Witness ==
    /\ InsertedVerse(ret)
    /\ Cardinality(DOMAIN tree) >= 2
    /\ disk # EmptyTree
    /\ get_verse_by_id(disk, ret.arg.verse_id).some
    /\ get_verse_by_id(disk, ret.arg.verse_id) # Some(ret.arg)

\* C2: after insert_image(image) returns Ok and stores the record under the
\* generated id, get_image with that id returns the record: the generated id
\* with the image's name as title, its data and its file_type.
C2_ImageRoundTrip ==
    InsertedImage(ret) =>
        get_image(tree, I32AsU64Bytes(ret.id)) = Some(new_image(ret.id, ret.arg))

\* C3: after delete_image / delte_by_id of an id returns Ok, get of that id
\* is None, and it stays None until an insert stores a record under that id.
C3_DeleteThenGet ==
    [][ /\ DeletedImage(ret') => get_image(tree', I32AsU64Bytes(ret'.id)) = None
        /\ DeletedVerse(ret') => get_verse_by_id(tree', ret'.id) = None
        /\ manager = ImageDatabase =>
              \A id \in ImageIds :
                  /\ get_image(tree, I32AsU64Bytes(id)) = None
                  /\ ~(InsertedImage(ret') /\ ret'.id = id)
                  => get_image(tree', I32AsU64Bytes(id)) = None
        /\ manager = BibleVerseData =>
              \A id \in VerseIds :
                  /\ get_verse_by_id(tree, id) = None
                  /\ ~(InsertedVerse(ret') /\ ret'.arg.verse_id = id)
                  => get_verse_by_id(tree', id) = None
      ]_vars

\* C3 witness: a delete that returned Ok and left other records behind
C3_Witness ==
    /\ DeletedVerse(ret)
    /\ tree # EmptyTree
    /\ disk # EmptyTree
    /\ get_verse_by_id(disk, ret.id).some

\* number of records get_all returns on the tree t through the manager m
Count(m, t) ==
    IF m = ImageDatabase THEN Len(get_images(t)) ELSE Len(get_all_bible_verses(t))

\* C4: the number of records get_images / get_all_bible_verses returns is not
\* smaller after an insert that returned Ok than before it, and is smaller by
\* exactly one after a delete that returned Ok; an insert_image into a store
\* in which get_images finds nothing leaves exactly one record, the new one.
C4_CountSteps ==
    [][ /\ (InsertedImage(ret') \/ InsertedVerse(ret')) =>
              Count(manager, tree') >= Count(manager, tree)
        /\ (DeletedImage(ret') \/ DeletedVerse(ret')) =>
              Count(manager, tree') = Count(manager, tree) - 1
        /\ (InsertedImage(ret') /\ get_images(tree) = <<>>) =>
              /\ Len(get_images(tree')) = 1
              /\ get_images(tree')[1].id = ret'.id
      ]_vars

\* C4 witness: a delete_image that returned Ok in a store that held several
\* images, one of them stored by an insert whose id was already in use
C4_Witness ==
    /\ DeletedImage(ret)
    /\ Len(get_images(tree)) >= 1
    /\ Cardinality(live) > Len(get_images(tree))

\* C5: no two insert_image calls that returned Ok assign the same id: the
\* record of every earlier insert that has not been deleted is still stored
\* after an insert, so an insert never overwrites an earlier insert's record.
C5_UniqueIds ==
    manager = ImageDatabase =>
        /\ \A r1, r2 \in live : r1.id = r2.id => r1 = r2
        /\ \A r \in live : db_get(tree, image_key(r.id)) = Some(serialize_image(r))

\* the elements of a sequence
Range(seq) == {seq[i] : i \in 1..Len(seq)}

Reopened(r) == r.op = "ImageDatabase::new" \/ r.op = "BibleVerseData::new"

\* C6: on a handle opened after the earlier handle was closed (by drop),
\* every record inserted with Ok and not deleted before the close is returned
\* by get and by get_all, and an id whose records were deleted is absent.
C6_Durable ==
    Reopened(ret) =>
        /\ manager = ImageDatabase =>
              /\ \A r \in live :
                    /\ get_image(tree, I32AsU64Bytes(r.id)) = Some(r)
                    /\ r \in Range(get_images(tree))
              /\ \A id \in ImageIds :
                    (\A r \in live : r.id # id) =>
                        /\ get_image(tree, I32AsU64Bytes(id)) = None
                        /\ \A r \in Range(get_images(tree)) : r.id # id
        /\ manager = BibleVerseData =>
              /\ \A r \in live :
                    /\ get_verse_by_id(tree, r.verse_id) = Some(r)
                    /\ r \in Range(get_all_bible_verses(tree))
              /\ \A id \in VerseIds :
                    (\A r \in live : r.verse_id # id) =>
                        /\ get_verse_by_id(tree, id) = None
                        /\ \A r \in Range(get_all_bible_verses(tree)) :
                              r.verse_id # id

\* the part of C6 that the code keeps: what get_all returns on the reopened
\* handle is what it returned on the handle that was dropped, and for
\* BibleVerseData every live record is returned by get and get_all
C6_DurableVerses ==
    Reopened(ret) =>
        /\ tree = disk
        /\ manager = BibleVerseData =>
              /\ \A r \in live :
                    /\ get_verse_by_id(tree, r.verse_id) = Some(r)
                    /\ r \in Range(get_all_bible_verses(tree))
              /\ \A id \in VerseIds :
                    (\A r \in live : r.verse_id # id) =>
                        get_verse_by_id(tree, id) = None

\* C7: delete_image / delte_by_id of an id that has no stored record returns
\* NotFound and leaves the store as it was (what the handle sees and what is
\* flushed); so a second delete of an id right after a delete of it that
\* returned Ok returns NotFound and changes nothing.
C7_DeleteAbsent ==
    [][ /\ (ret'.op = "delete_image" /\ image_key(ret'.id) \notin DOMAIN tree) =>
              ret'.res = "NotFound" /\ tree' = tree /\ disk' = disk
        /\ (ret'.op = "delte_by_id" /\ verse_key(ret'.id) \notin DOMAIN tree) =>
              ret'.res = "NotFound" /\ tree' = tree /\ disk' = disk
        /\ ((DeletedImage(ret) /\ ret'.op = "delete_image" /\ ret'.id = ret.id)
              \/ (DeletedVerse(ret) /\ ret'.op = "delte_by_id" /\ ret'.id = ret.id)) =>
              ret'.res = "NotFound" /\ tree' = tree /\ disk' = disk
      ]_vars

\* C7 witness: a delete that returned NotFound right after a delete of the
\* same id that returned Ok (the id's record is still in the flushed store)
C7_Witness ==
    /\ ret.op = "delte_by_id"
    /\ ret.res = "NotFound"
    /\ get_verse_by_id(disk, ret.id).some
    /\ tree # EmptyTree

\* C8: insert_bible_verse of a verse whose verse_id is already in the store
\* returns Ok and replaces the record: get_verse_by_id(verse_id) is the new
\* verse, get_all_bible_verses has as many records as before, and the
\* records under every other id are as before.
C8_Upsert ==
    [][ (ret'.op = "insert_bible_verse"
            /\ get_verse_by_id(tree, ret'.arg.verse_id).some) =>
          /\ ret'.res = "Ok"
          /\ get_verse_by_id(tree', ret'.arg.verse_id) = Some(ret'.arg)
          /\ Len(get_all_bible_verses(tree')) = Len(get_all_bible_verses(tree))
          /\ \A id \in VerseIds \ {ret'.arg.verse_id} :
                get_verse_by_id(tree', id) = get_verse_by_id(tree, id)
          /\ \A k \in DOMAIN tree \ {verse_key(ret'.arg.verse_id)} :
                k \in DOMAIN tree' /\ tree'[k] = tree[k]
      ]_vars

\* C8 witness: an insert that replaced a different verse under the same id,
\* with a verse under another id beside it
C8_Witness ==
    /\ InsertedVerse(ret)
    /\ Cardinality(DOMAIN tree) >= 2
    /\ get_verse_by_id(disk, ret.arg.verse_id).some
    /\ get_verse_by_id(disk, ret.arg.verse_id) # Some(ret.arg)
    /\ disk # tree

\* how often v occurs in seq
Occurrences(seq, v) == Cardinality({i \in 1..Len(seq) : seq[i] = v})

ImageEntries(t) == {k \in DOMAIN t : deserialize_image(t[k]).some}
VerseEntries(t) == {k \in DOMAIN t : deserialize_verse(t[k]).some}

\* C9: get_images / get_all_bible_verses returns exactly the stored entries
\* that deserialize as the manager's record type, each once: as many records
\* as there are such entries, and every record as often as entries hold it.
\* Entries that do not deserialize (here: left by a manager of the other type
\* on the same path) are left out and take no other record with them.
C9_GetAllExact ==
    /\ manager = ImageDatabase =>
          LET res == get_images(tree)
          IN  /\ Len(res) = Cardinality(ImageEntries(tree))
              /\ \A k \in ImageEntries(tree) :
                    LET v == deserialize_image(tree[k]).val
                    IN  Occurrences(res, v) =
                            Cardinality({j \in ImageEntries(tree) :
                                            deserialize_image(tree[j]).val = v})
              /\ ret.op = "get_images" => ret.res = res
    /\ manager = BibleVerseData =>
          LET res == get_all_bible_verses(tree)
          IN  /\ Len(res) = Cardinality(VerseEntries(tree))
              /\ \A k \in VerseEntries(tree) :
                    LET v == deserialize_verse(tree[k]).val
                    IN  Occurrences(res, v) =
                            Cardinality({j \in VerseEntries(tree) :
                                            deserialize_verse(tree[j]).val = v})
              /\ ret.op = "get_all_bible_verses" => ret.res = res

\* C9 witness: get_images over a tree in which an entry that does not
\* deserialize as an image comes before one that does, and a verse entry
\* deserializes as an image
C9_Witness ==
    /\ ret.op = "get_images"
    /\ \E k1, k2 \in DOMAIN tree :
          /\ k1 \notin ImageEntries(tree)
          /\ k2 \in ImageEntries(tree)
          /\ KeyLess(k1, k2)
    /\ \E k \in ImageEntries(tree) : deserialize_verse(tree[k]).val \in VerseInputs

\* positions of ids whose verse get_verse_by_id finds
Found(t, ids) == {j \in 1..Len(ids) : get_verse_by_id(t, ids[j]).some}

\* the i-th smallest element of a set of numbers
Nth(S, i) == CHOOSE j \in S : Cardinality({x \in S : x < j}) = i - 1

\* C10: get_verses_by_list_of_ids(ids) returns the verses in list order: one
\* verse for every position of the list whose id is stored (so as many as the
\* list is long when all are, duplicates repeated), the i-th of them the verse
\* get_verse_by_id gives for the i-th such position, with that id as verse_id.
C10_ListOrder ==
    ret.op = "get_verses_by_list_of_ids" =>
        LET found == Found(tree, ret.ids)
        IN  /\ Len(ret.res) = Cardinality(found)
            /\ \A i \in 1..Len(ret.res) :
                  /\ ret.res[i] = get_verse_by_id(tree, ret.ids[Nth(found, i)]).val
                  /\ ret.res[i].verse_id = ret.ids[Nth(found, i)]
            /\ (found = 1..Len(ret.ids)) =>
                  /\ Len(ret.res) = Len(ret.ids)
                  /\ \A i \in 1..Len(ret.ids) : ret.res[i].verse_id = ret.ids[i]

\* C10 witness: a list in descending id order with both ids stored
C10_Witness ==
    /\ ret.op = "get_verses_by_list_of_ids"
    /\ Len(ret.ids) >= 2
    /\ Len(ret.res) = Len(ret.ids)
    /\ ret.ids[1] > ret.ids[2]

\* C11: every failure of the engine comes back to the caller as a returned
\* failure value (or an absent result) and never aborts the caller: no
\* call, ImageDatabase::new / BibleVerseData::new on a path that cannot be
\* opened included, ends in a panic.
C11_NoAbort == ret.op # "panic"

\* the id fields of the records the store holds
StoredImageIds(t) == {r.id : r \in Range(get_images(t))}
StoredVerseIds(t) == {r.verse_id : r \in Range(get_all_bible_verses(t))}

\* C12: get_image / get_verse_by_id of an id under which no record is
\* stored returns None, in every reachable store (the empty one included)
\* and for every id (the never inserted ones included).
C12_GetAbsent ==
    /\ manager = ImageDatabase =>
          \A id \in ImageIds \ StoredImageIds(tree) :
              get_image(tree, I32AsU64Bytes(id)) = None
    /\ manager = BibleVerseData =>
          \A id \in VerseIds \ StoredVerseIds(tree) :
              get_verse_by_id(tree, id) = None
    /\ (ret.op = "get_image" /\ ret.id \notin StoredImageIds(tree)) =>
          ret.res = None
    /\ (ret.op = "get_verse_by_id" /\ ret.id \notin StoredVerseIds(tree)) =>
          ret.res = None

\* C12 witness: get_verse_by_id of an id that no insert ever used, on a store
\* that holds verses; the call returned None
C12_Witness ==
    /\ ret.op = "get_verse_by_id"
    /\ ret.id \notin {v.verse_id : v \in VerseInputs}
    /\ StoredVerseIds(tree) # {}
    /\ ret.res = None

\* C12 witness on the empty store
C12_WitnessEmpty ==
    /\ ret.op = "get_verse_by_id"
    /\ tree = EmptyTree
    /\ ret.res = None

\* a test thread between its lock() and the end of its body
InBody(t) == pc[t] \notin {"start", "done", "panicked"}

\* C13: with the tests in parallel threads on the one manager behind
\* DB_MANAGER, each holding the lock for its whole body, test_delete_image
\* under every interleaving sees exactly 1 record after it cleared the store
\* and inserted one image and 0 records after it deleted that image, and none
\* of its steps panics; while it is in its body no other thread is in its
\* own, so no insert of another thread falls between its steps.
C13_DeleteTestCounts ==
    /\ pc["test_delete_image"] = "assert_eq_1" => Len(locals.images) = 1
    /\ pc["test_delete_image"] = "assert_eq_0" =>
          Len(locals.images_after_delete) = 0
    /\ pc["test_delete_image"] # "panicked"
    /\ InBody("test_delete_image") =>
          /\ lock = "test_delete_image"
          /\ \A t \in Tests \ {"test_delete_image"} : ~InBody(t)

\* C13 witness: test_delete_image ran to its end after both other tests had
\* inserted, so it cleared a store of two records
C13_Witness ==
    /\ pc["test_delete_image"] = "done"
    /\ pc["test_insert_image"] = "done"
    /\ pc["test_get_images"] = "done"
    /\ gens = MaxGen
    /\ ret.op = "get_images"
    /\ locals.images # <<>>

\* the sequence without the records of the given id
WithoutImage(seq, id) ==
    LET keep(r) == r.id # id IN SelectSeq(seq, keep)
WithoutVerse(seq, id) ==
    LET keep(r) == r.verse_id # id IN SelectSeq(seq, keep)

\* every entry holds a record of the manager's type, under the big-endian
\* bytes of the record's id field
KeyedByOwnId ==
    /\ manager = ImageDatabase =>
          \A k \in DOMAIN tree :
              LET d == deserialize_image(tree[k])
              IN  d.some /\ k = to_be_bytes_32(d.val.id)
    /\ manager = BibleVerseData =>
          \A k \in DOMAIN tree :
              LET d == deserialize_verse(tree[k])
              IN  d.some /\ k = to_be_bytes_32(d.val.verse_id)

\* no id is the id of two of the records get_images / get_all_bible_verses
\* return
NoSharedId ==
    /\ manager = ImageDatabase =>
          LET all == get_images(tree)
          IN  \A i, j \in 1..Len(all) : all[i].id = all[j].id => i = j
    /\ manager = BibleVerseData =>
          LET all == get_all_bible_verses(tree)
          IN  \A i, j \in 1..Len(all) :
                  all[i].verse_id = all[j].verse_id => i = j

\* C14: in a store written only through insert_image / insert_bible_verse
\* and the deletes, every stored record lies under the key that is the
\* big-endian encoding of its own id field; so no two stored records have
\* the same id, and a delete of the id of a record that get_images /
\* get_all_bible_verses returns is Ok and removes that record and no other.
C14_KeyedByOwnId ==
    /\ [](KeyedByOwnId /\ NoSharedId)
    /\ [][ /\ (ret'.op = "delete_image" /\ ret'.id \in StoredImageIds(tree)) =>
                 /\ ret'.res = "Ok"
                 /\ get_images(tree') = WithoutImage(get_images(tree), ret'.id)
                 /\ Len(get_images(tree')) = Len(get_images(tree)) - 1
           /\ (ret'.op = "delte_by_id" /\ ret'.id \in StoredVerseIds(tree)) =>
                 /\ ret'.res = "Ok"
                 /\ get_all_bible_verses(tree') =
                       WithoutVerse(get_all_bible_verses(tree), ret'.id)
                 /\ Len(get_all_bible_verses(tree')) =
                       Len(get_all_bible_verses(tree)) - 1
         ]_vars

\* C14 witness: delete_image of the id of one of several stored images, one
\* of them stored under an id that the narrowing to i32 made negative
C14_Witness ==
    /\ ret.op = "delete_image"
    /\ ret.res = "Ok"
    /\ ret.id > 0
    /\ -1 \in StoredImageIds(tree)
    /\ Cardinality(DOMAIN tree) >= 2

\* the calls that read, and the closes
ReadOps ==
    {"get_image", "get_images", "get_verse_by_id", "get_all_bible_verses",
     "get_verses_by_list_of_ids"}
CloseOps == {"ImageDatabase::close", "BibleVerseData::close"}

\* two recorded calls are the same call with the same arguments
SameCall(r, q) ==
    /\ r.op = q.op
    /\ r.op \in {"get_image", "get_verse_by_id"} => r.id = q.id
    /\ r.op = "get_verses_by_list_of_ids" => r.ids = q.ids

\* C15: get_image, get_images, get_verse_by_id, get_all_bible_verses,
\* get_verses_by_list_of_ids and close() leave the stored records as they
\* were (the tree, and with it what get_images / get_all_bible_verses list);
\* a read that directly follows the same read with the same arguments
\* returns the same result.
C15_ReadsKeepStore ==
    [][ /\ ret'.op \in ReadOps \cup CloseOps =>
              /\ tree' = tree
              /\ get_images(tree') = get_images(tree)
              /\ get_all_bible_verses(tree') = get_all_bible_verses(tree)
        /\ ret'.op \in ReadOps => disk' = disk
        /\ (ret.op \in ReadOps /\ SameCall(ret, ret')) => ret'.res = ret.res
      ]_vars

\* C15 witness: a read by id that found its verse in a store holding other
\* verses and writes not yet flushed
C15_Witness ==
    /\ ret.op = "get_verse_by_id"
    /\ ret.res.some
    /\ Cardinality(DOMAIN tree) >= 2
    /\ disk # tree

\* the lines after the first that split on ',' into six fields
SixFieldLines(b) ==
    LET six(line) == Len(split(line, 44)) = 6
    IN  SelectSeq(Tail(lines(b)), six)

\* the row is the line's fields: the numbers as decimal values, the name
\* and the text as they stand
RowOfLine(row, line) ==
    LET fields == split(line, 44)
    IN  /\ Some(row.verse_id) = parse(fields[1])
        /\ row.book_name = fields[2]
        /\ Some(row.book_number) = parse(fields[3])
        /\ Some(row.chapter) = parse(fields[4])
        /\ Some(row.verse) = parse(fields[5])
        /\ row.text = fields[6]

\* C16: read_bible_csv of a file skips the first line and returns Ok with,
\* in file order, one BibleVerse for each later line that splits on ','
\* into exactly six fields; the later lines with another number of fields
\* are dropped without an error, so the result has as many rows as there
\* are six-field lines after the first line.
C16_SixFieldRows ==
    (ret.op = "read_bible_csv" /\ contents.some /\ Utf8Valid(contents.val)) =>
        /\ ret.res.kind = "Ok"
        /\ Len(ret.res.rows) = Len(SixFieldLines(contents.val))
        /\ \A i \in 1..Len(ret.res.rows) :
              RowOfLine(ret.res.rows[i], SixFieldLines(contents.val)[i])

\* every number of every six-field line after the first parses as a u32
WellFormed(b) ==
    /\ b # <<>>
    /\ \A i \in 1..Len(SixFieldLines(b)) :
          LET fields == split(SixFieldLines(b)[i], 44)
          IN  \A n \in {1, 3, 4, 5} : parse(fields[n]).some

\* supporting lemma for C16: the claim holds of the files that have a first
\* line and whose six-field lines hold numbers; on every other file that
\* can be read the call panics
C16_WellFormedRows ==
    (ret.op = "read_bible_csv" /\ contents.some /\ Utf8Valid(contents.val)) =>
        IF WellFormed(contents.val)
        THEN /\ ret.res.kind = "Ok"
             /\ Len(ret.res.rows) = Len(SixFieldLines(contents.val))
             /\ \A i \in 1..Len(ret.res.rows) :
                   RowOfLine(ret.res.rows[i], SixFieldLines(contents.val)[i])
        ELSE ret.res.kind = "panic"

\* a read that returned two rows from a file with a dropped line between
\* the lines of the rows
C16_ReadTwoRows ==
    /\ ret.op = "read_bible_csv"
    /\ ret.res.kind = "Ok"
    /\ Len(ret.res.rows) = 2
    /\ Len(lines(contents.val)) > 3

====
